---- MODULE Spec2Model ----
(***************************************************************************)
(* Model of the billing connector: BillingAccount (billing-account.js),    *)
(* WebSocketChannel and BillingService (websocket-channel.js).             *)
(*                                                                         *)
(* JavaScript runs one callback at a time; every action below is one       *)
(* callback run to completion (a host call, a transport event, a timer)    *)
(* or, for the async syncCharges, the part before / after its await. What  *)
(* runs while syncCharges is suspended is the scheduler's choice: any      *)
(* callback may, and none has to.                                          *)
(***************************************************************************)
EXTENDS Integers, Sequences, FiniteSets, TLC

(***************************************************************************)
(* Bounds of the model.                                                    *)
(***************************************************************************)
MaxTransports == 2      \* WebSocket objects ever created
MaxCharges == 2         \* successful charge() calls in one behaviour
MaxBalance == 2         \* largest balance the server delivers
MaxAmount == 5          \* largest amount handed to tryCharge directly
MaxAccountBalance == 6  \* largest balance of the account tried on its own

(***************************************************************************)
(* Strings are sequences of one-character strings, so that toLowerCase,    *)
(* replace, startsWith, endsWith, substring and split are computed.        *)
(***************************************************************************)
LowerChar(c) == IF c = "A" THEN "a" ELSE IF c = "X" THEN "x" ELSE c

ToLowerCase(s) == [i \in 1..Len(s) |-> LowerChar(s[i])]

StartsWith(s, p) == Len(p) <= Len(s) /\ SubSeq(s, 1, Len(p)) = p

EndsWith(s, p) == Len(p) <= Len(s) /\ SubSeq(s, Len(s) - Len(p) + 1, Len(s)) = p

\* String.prototype.substring(from)
Substring(s, from) == SubSeq(s, from + 1, Len(s))

Http == <<"h", "t", "t", "p", ":", "/", "/">>
Https == <<"h", "t", "t", "p", "s", ":", "/", "/">>

\* origin.replace(/^https?:\/\//, '')
StripScheme(s) ==
    IF StartsWith(s, Https) THEN Substring(s, Len(Https))
    ELSE IF StartsWith(s, Http) THEN Substring(s, Len(Http))
    ELSE s

\* origin.toLowerCase().replace(/^https?:\/\//, '')
NormalizeOrigin(s) == StripScheme(ToLowerCase(s))

\* positions of the separator in s
SepPositions(s, sep) == {i \in 1..Len(s) : s[i] = sep}

\* s.split(' '): the pieces between the separators, in order
RECURSIVE Split(_, _)
Split(s, sep) ==
    IF SepPositions(s, sep) = {} THEN <<s>>
    ELSE LET i == CHOOSE k \in SepPositions(s, sep) :
                      \A j \in SepPositions(s, sep) : k <= j
         IN <<SubSeq(s, 1, i - 1)>> \o Split(SubSeq(s, i + 1, Len(s)), sep)

(***************************************************************************)
(* OriginMatcher (origin-matcher.js; billing-account.js holds a second     *)
(* class of the same name whose match guards its argument).                *)
(***************************************************************************)
\* the characters \w matches
WordChars ==
    { "a", "b", "c", "d", "e", "f", "g", "h", "i", "j", "k", "l", "m",
      "n", "o", "p", "q", "r", "s", "t", "u", "v", "w", "x", "y", "z",
      "A", "B", "C", "D", "E", "F", "G", "H", "I", "J", "K", "L", "M",
      "N", "O", "P", "Q", "R", "S", "T", "U", "V", "W", "X", "Y", "Z",
      "0", "1", "2", "3", "4", "5", "6", "7", "8", "9", "_" }

\* \w+ matches the whole of s
IsWord(s) == Len(s) > 0 /\ \A i \in 1..Len(s) : s[i] \in WordChars

\* the positions (from 0) at which p occurs in s
Occurrences(s, p) ==
    {i \in 0..(Len(s) - Len(p)) : SubSeq(s, i + 1, i + Len(p)) = p}

\* s.indexOf(p)
IndexOf(s, p) ==
    IF Occurrences(s, p) = {} THEN -1
    ELSE CHOOSE i \in Occurrences(s, p) : \A j \in Occurrences(s, p) : i <= j

\* s.includes(p)
Includes(s, p) == IndexOf(s, p) # -1

\* s.replace(p, ''), p a string: its first occurrence is taken out
RemoveFirst(s, p) ==
    IF ~Includes(s, p) THEN s
    ELSE SubSeq(s, 1, IndexOf(s, p)) \o SubSeq(s, IndexOf(s, p) + Len(p) + 1, Len(s))

Wildcard == <<"*", ".">>

\* new OriginMatcher(allowlist): wildcards holds the root of every wildcard
\* entry, list the root of every wildcard entry and every other entry as is
OriginMatcher(origins) ==
    [wildcards |-> {Substring(o, IndexOf(o, Wildcard) + 2) :
                        o \in {x \in origins : Includes(x, Wildcard)}},
     list |-> {IF Includes(o, Wildcard) THEN RemoveFirst(o, Wildcard) ELSE o :
                        o \in origins}]

\* an absent argument, as the string a regular expression is run on
StringOf(x) ==
    IF x = <<"undefined">> THEN <<"u", "n", "d", "e", "f", "i", "n", "e", "d">> ELSE x

\* the positions (from 1) at which /\w+\.\w+$/ matches in s
DomainMatches(s) ==
    {i \in 1..Len(s) :
        \E d \in (i + 1)..(Len(s) - 1) :
            /\ s[d] = "."
            /\ IsWord(SubSeq(s, i, d - 1))
            /\ IsWord(SubSeq(s, d + 1, Len(s)))}

Null == <<"null">>

\* /\w+\.\w+$/.exec(origin): the leftmost match, or null
Exec(origin) ==
    LET s == StringOf(origin)
    IN IF DomainMatches(s) = {} THEN Null
       ELSE SubSeq(s, CHOOSE i \in DomainMatches(s) :
                          \A j \in DomainMatches(s) : i <= j, Len(s))

\* match(origin) of origin-matcher.js: "true", "false", or "throw" for the
\* TypeError of null[0]
match(matcher, origin) ==
    IF origin \in matcher.list THEN "true"
    ELSE IF Exec(origin) = Null THEN "throw"
    ELSE IF Exec(origin) \in matcher.wildcards THEN "true"
    ELSE "false"

\* match(origin) of the OriginMatcher in billing-account.js
matchGuarded(matcher, origin) ==
    IF origin = <<"undefined">> \/ origin = <<>> THEN "false"
    ELSE IF origin \in matcher.list THEN "true"
    ELSE IF Exec(origin) # Null /\ Exec(origin) \in matcher.wildcards THEN "true"
    ELSE "false"

\* the allowlist entries and the origins the matcher is tried with
ExampleWildcard == <<"*", ".", "e", "x", "a", "m", "p", "l", "e", ".", "c", "o", "m">>
ExampleRoot == <<"e", "x", "a", "m", "p", "l", "e", ".", "c", "o", "m">>
ExampleSubdomain == <<"a", "p", "i", ".", "e", "x", "a", "m", "p", "l", "e", ".", "c", "o", "m">>
ExampleLookalike == <<"e", "v", "i", "l", "-", "e", "x", "a", "m", "p", "l", "e", ".", "c", "o", "m">>

AllowlistEntries ==
    { ExampleWildcard,
      <<"o", "t", "h", "e", "r", ".", "o", "r", "g">>,
      <<"l", "o", "c", "a", "l", "h", "o", "s", "t">> }

Origins ==
    { <<"undefined">>,
      <<>>,
      ExampleRoot,
      ExampleSubdomain,
      ExampleLookalike,
      <<"o", "t", "h", "e", "r", ".", "o", "r", "g">>,
      <<"l", "o", "c", "a", "l", "h", "o", "s", "t">>,
      <<"a", ".", "b", ".", "e", "x", "a", "m", "p", "l", "e", ".", "c", "o", "m">> }

(***************************************************************************)
(* Configuration handed to the BillingService constructor, and the         *)
(* account records the billing server knows.                               *)
(***************************************************************************)
AccountIds == {"a1", "a2"}
Categories == {"c1", "c2"}

\* pricing: category -> credits
pricing == [c \in Categories |-> IF c = "c1" THEN 1 ELSE 2]

OwnOrigin == <<"o", "w", "n", ".", "i", "o">>

\* allowlist of the service's own frontend origins
allowlist == {OwnOrigin}

Undefined == <<"undefined">>   \* an absent header / property

KeyOf(id) == IF id = "a1" THEN <<"k", "1">> ELSE <<"k", "2">>

\* account properties as the server sends them (besides the balance)
ServerOrigins(id) ==
    IF id = "a1" THEN {<<"*", ".", "a", ".", "i", "o">>}
    ELSE {<<"b", ".", "i", "o">>}

ServerApiKeys(id) == {KeyOf(id)}


\* request attribution data: the origin and authorization headers
Bearer(key) == <<"B", "e", "a", "r", "e", "r", " ">> \o key

OriginHeaders ==
    { Undefined,
      OwnOrigin,
      <<"h", "t", "t", "p", "s", ":", "/", "/", "X", ".", "a", ".", "i", "o">>,
      <<"b", "a", ".", "i", "o">> }

AuthorizationHeaders ==
    { Undefined,
      Bearer(KeyOf("a2")),
      <<"B", "a", "s", "i", "c", " ">> \o KeyOf("a1"),
      Bearer(<<"z">>) }

RequestHeaders ==
    [origin : OriginHeaders, authorization : AuthorizationHeaders]

\* the `from` argument of charge: an account id (a string) or request headers
Froms ==
    [kind : {"id"}, id : AccountIds \cup {"zz"}]
        \cup [kind : {"headers"}, headers : RequestHeaders]

\* balances the server delivers
Balances == {MaxBalance}

(***************************************************************************)
(* State.                                                                  *)
(***************************************************************************)
VARIABLES
    status,           \* WebSocketChannel.status
    autoReconnect,    \* WebSocketChannel.autoReconnect (undefined is FALSE)
    ws,               \* WebSocketChannel.ws: a transport, or NoWs
    readyState,       \* every WebSocket created so far and its state
    reconnectTimers,  \* pending setTimeout(() => this.connect(), 2000)
    accountsLoaded,   \* BillingService.accounts is an object (not undefined)
    accounts,         \* BillingService.accounts: id -> BillingAccount
    pendingCharges,   \* BillingService.pendingCharges
    syncTimerHandler, \* BillingService.syncTimerHandler
    syncTimers,       \* pending setTimeout(() => this.syncCharges(), ...)
    syncInProgress,   \* BillingService.syncInProgress
    inFlight,         \* the suspended syncCharges call: its locals and the
                      \* outcome of notify it awaits
    originMatcher,    \* an OriginMatcher: its wildcards and its list
    last,             \* the callback that ran last, its input and result
    history           \* what happened so far (observation only)

vars == <<status, autoReconnect, ws, readyState, reconnectTimers,
          accountsLoaded, accounts, pendingCharges, syncTimerHandler,
          syncTimers, syncInProgress, inFlight, originMatcher, last, history>>

channelVars == <<status, autoReconnect, ws, readyState, reconnectTimers>>
ledgerVars == <<accountsLoaded, accounts, pendingCharges>>
syncVars == <<syncTimerHandler, syncTimers, syncInProgress, inFlight>>

NoWs == 0
NoTimer == 0

TimerIds == 1..(MaxTransports + 2)

\* an object with no keys
EmptyObject == [k \in {} |-> 0]

\* obj[k] = v
Put(obj, k, v) == [x \in DOMAIN obj \cup {k} |-> IF x = k THEN v ELSE obj[x]]

Last(op, arg, result) == [op |-> op, arg |-> arg, result |-> result]


(***************************************************************************)
(* BillingAccount                                                          *)
(***************************************************************************)
\* new Account(id): the class field initialisers
NewAccount == [balance |-> 0, chargedBalance |-> 0,
               origins |-> {}, apiKeys |-> {}]

\* get currentBalance
currentBalance(account) == account.balance - account.chargedBalance

\* a tryCharge that compares the amount with the balance alone
CanChargeOfBalance(account, amount) == ~(account.balance < amount)

\* a tryCharge that refuses a charge of all that is available
CanChargeBelow(account, amount) == ~(currentBalance(account) <= amount)

\* tryCharge: whether the charge is accepted
CanCharge(account, amount) == ~(currentBalance(account) < amount)

\* tryCharge: the account afterwards
tryCharge(account, amount) ==
    IF CanCharge(account, amount)
    THEN [account EXCEPT !.chargedBalance = @ + amount]
    ELSE account

\* update(accountProps): Object.assign(this, accountProps)
update(account, props) ==
    [account EXCEPT !.balance = props.balance,
                    !.origins = props.origins,
                    !.apiKeys = props.apiKeys]

(***************************************************************************)
(* The ws library's WebSocket, as far as the channel uses it.              *)
(*   connecting  the handshake is running                                  *)
(*   open        open was emitted                                          *)
(*   closing     close() was called on an open socket: frames may still    *)
(*               arrive until the peer answers                             *)
(*   destroyed   the handshake was aborted or the socket destroyed         *)
(*   errored     error was emitted; close follows                          *)
(*   closed      close was emitted; no event follows                       *)
(***************************************************************************)
Created == DOMAIN readyState

\* WebSocket.close()
wsClose(rs, t) ==
    IF t = NoWs THEN rs
    ELSE [rs EXCEPT ![t] = IF @ = "connecting" THEN "destroyed"
                           ELSE IF @ = "open" THEN "closing"
                           ELSE @]

\* WebSocket.terminate()
wsTerminate(rs, t) ==
    IF t = NoWs THEN rs
    ELSE [rs EXCEPT ![t] = IF @ \in {"connecting", "open", "closing"}
                           THEN "destroyed"
                           ELSE @]

\* WebSocket.send(data) without a callback: it throws while the handshake is
\* running; on a socket that is no longer open it throws or drops the data,
\* depending on the version of the library.
wsSendOutcomes(rs, t) ==
    IF rs[t] = "connecting" THEN {"throw"}
    ELSE IF rs[t] = "open" THEN {"ok"}
    ELSE {"ok", "throw"}

(***************************************************************************)
(* WebSocketChannel                                                        *)
(***************************************************************************)
\* notify(message): this.ws.send(...) inside an async function, so that a
\* throw (also the TypeError of a null ws) rejects the returned promise
notifyOutcomes(w, rs) ==
    IF w = NoWs THEN {"throw"} ELSE wsSendOutcomes(rs, w)

\* the code that tells a rejected credential
PolicyViolation == 1008

CloseCodes == {1006, PolicyViolation}

\* an onClose that takes every close for a rejection
AnyCloseRejects(errorCode) == TRUE

\* onClose: whether the close is a rejection of the service token
IsRejection(errorCode) == errorCode = PolicyViolation

\* connect(): the new transport
NewWs == Cardinality(Created) + 1

\* connect()
ChannelConnect(rs) ==
    /\ autoReconnect' = TRUE
    /\ ws' = NewWs
    /\ readyState' = Put(rs, NewWs, "connecting")

\* onOpen: whether it throws
onOpenThrows(w, rs) == w = NoWs \/ rs[w] # "open"

\* an onOpen that takes the open event for the connection being up
onOpenConnected(t) ==
    /\ UNCHANGED originMatcher
    /\ readyState[t] = "connecting"
    /\ readyState' = [readyState EXCEPT ![t] = "open"]
    /\ status' = "connected"
    /\ last' = Last("open", <<>>,
                    IF onOpenThrows(ws, readyState') THEN "throw" ELSE "ok")
    /\ UNCHANGED <<autoReconnect, ws, reconnectTimers, ledgerVars,
                   syncVars, history>>

\* 'open' on transport t
onOpen(t) ==
    /\ UNCHANGED originMatcher
    /\ readyState[t] = "connecting"
    /\ readyState' = [readyState EXCEPT ![t] = "open"]
    /\ last' = Last("open", <<>>,
                    IF onOpenThrows(ws, readyState') THEN "throw" ELSE "ok")
    /\ UNCHANGED <<status, autoReconnect, ws, reconnectTimers, ledgerVars,
                   syncVars, history>>

\* 'close' on transport t
onClose(t, errorCode) ==
    /\ UNCHANGED originMatcher
    /\ readyState[t] \in {"open", "closing", "destroyed", "errored"}
    /\ LET closed == [readyState EXCEPT ![t] = "closed"]
           reconnect == IF IsRejection(errorCode) THEN FALSE ELSE autoReconnect
       IN /\ readyState' = wsTerminate(closed, ws)
          /\ ws' = NoWs
          /\ autoReconnect' = reconnect
          /\ status' = "disconnected"
          /\ IF reconnect
             THEN reconnectTimers' = reconnectTimers + 1
             ELSE UNCHANGED reconnectTimers
    /\ last' = Last("close", <<errorCode>>, "ok")
    /\ history' = [history EXCEPT
                     !.rejected = @ \/ IsRejection(errorCode)]
    /\ UNCHANGED <<ledgerVars, syncVars>>

\* close(): the transports afterwards
close(rs) == wsClose(rs, ws)

\* 'error' on transport t
onError(t) ==
    /\ UNCHANGED originMatcher
    /\ readyState[t] \in {"connecting", "open", "closing", "destroyed"}
    /\ status' = "disconnected"
    /\ autoReconnect' = FALSE
    /\ readyState' = close([readyState EXCEPT ![t] = "errored"])
    /\ reconnectTimers' = reconnectTimers + 1
    /\ last' = Last("error", <<>>, "ok")
    /\ UNCHANGED <<ws, ledgerVars, syncVars, history>>

\* the reconnect timeout fires: () => this.connect()
Reconnect ==
    /\ UNCHANGED originMatcher
    /\ reconnectTimers > 0
    /\ Cardinality(Created) < MaxTransports
    /\ reconnectTimers' = reconnectTimers - 1
    /\ ChannelConnect(readyState)
    /\ last' = Last("reconnect", <<>>, "ok")
    /\ UNCHANGED <<status, ledgerVars, syncVars, history>>


(***************************************************************************)
(* BillingService: account resolution and charge                           *)
(***************************************************************************)
\* ao === origin || ao.startsWith('*.') && origin.endsWith(ao.substring(1))
OriginMatches(ao, origin) ==
    \/ ao = origin
    \/ /\ StartsWith(ao, <<"*", ".">>)
       /\ EndsWith(origin, Substring(ao, 1))

\* the accounts some origin of which matches the normalized origin
AccountsByOrigin(accs, origin) ==
    {id \in DOMAIN accs :
        \E ao \in accs[id].origins : OriginMatches(ao, NormalizeOrigin(origin))}

\* the accounts one API key of which is the bearer key
AccountsByApiKey(accs, apiKey) ==
    {id \in DOMAIN accs : apiKey \in accs[id].apiKeys}

\* Object.values(this.accounts).find(...): the server's origins and keys
\* are disjoint between accounts, so that at most one account matches
Find(ids) == IF ids = {} THEN "false" ELSE CHOOSE id \in ids : TRUE

\* [type, apiKey] = auth.split(' '); a missing piece is undefined
Piece(parts, i) == IF i <= Len(parts) THEN parts[i] ELSE Undefined

\* a matcher that looks at the allowlist only once accounts are loaded
matchAccountOnceLoaded(loaded, accs, requestHeaders) ==
    LET origin == requestHeaders.origin
        auth == requestHeaders.authorization
        byOrigin == IF origin # Undefined
                    THEN Find(AccountsByOrigin(accs, origin))
                    ELSE "false"
        parts == Split(auth, " ")
    IN IF ~loaded THEN "false"
       ELSE IF origin # Undefined /\ origin \in allowlist THEN "true"
       ELSE IF byOrigin # "false" THEN byOrigin
       ELSE IF auth # Undefined /\ Piece(parts, 1) = <<"B", "e", "a", "r", "e", "r">>
            THEN Find(AccountsByApiKey(accs, Piece(parts, 2)))
       ELSE "false"

\* matchAccountFromRequestHeaders: "true", "false" or the id of the account
matchAccountFromRequestHeaders(loaded, accs, requestHeaders) ==
    LET origin == requestHeaders.origin
        auth == requestHeaders.authorization
        byOrigin == IF origin # Undefined
                    THEN Find(AccountsByOrigin(accs, origin))
                    ELSE "false"
        parts == Split(auth, " ")
    IN IF origin # Undefined /\ origin \in allowlist THEN "true"
       ELSE IF ~loaded THEN "false"
       ELSE IF byOrigin # "false" THEN byOrigin
       ELSE IF auth # Undefined /\ Piece(parts, 1) = <<"B", "e", "a", "r", "e", "r">>
            THEN Find(AccountsByApiKey(accs, Piece(parts, 2)))
       ELSE "false"

\* charge: the account id charge goes on with, or the boolean it returns
\* directly
Resolve(loaded, accs, from) ==
    IF from.kind = "id" THEN from.id
    ELSE matchAccountFromRequestHeaders(loaded, accs, from.headers)

\* charge: the ledger entry of (id, category), [0, 0] when there is none
Entry(ledger, id, category) ==
    IF id \in DOMAIN ledger /\ category \in DOMAIN ledger[id]
    THEN ledger[id][category]
    ELSE <<0, 0>>

\* charge: accountCategoryCharges[0]++, accountCategoryCharges[1] += credits
Record(ledger, id, category, credits) ==
    LET accountCharges == IF id \in DOMAIN ledger THEN ledger[id]
                          ELSE EmptyObject
        old == Entry(ledger, id, category)
    IN Put(ledger, id,
           Put(accountCharges, category, <<old[1] + 1, old[2] + credits>>))

\* charge: what it returns ("true", "false") or that it throws
ChargeResult(loaded, accs, from, category) ==
    LET r == Resolve(loaded, accs, from)
    IN IF r \in {"true", "false"} THEN r
       ELSE IF ~loaded THEN "throw"       \* this.accounts[from] of undefined
       ELSE IF r \notin DOMAIN accs THEN "false"
       ELSE IF ~CanCharge(accs[r], pricing[category]) THEN "false"
       ELSE "true"

\* charge: whether an account is charged
Charges(loaded, accs, from, category) ==
    /\ ChargeResult(loaded, accs, from, category) = "true"
    /\ Resolve(loaded, accs, from) # "true"

Add2(a, b) == <<a[1] + b[1], a[2] + b[2]>>

\* charge(from, category)
charge(from, category) ==
    LET id == Resolve(accountsLoaded, accounts, from)
        credits == pricing[category]
        charged == Charges(accountsLoaded, accounts, from, category)
    IN /\ UNCHANGED originMatcher
       /\ charged => history.charges < MaxCharges
       /\ last' = Last("charge", <<>>,
                       ChargeResult(accountsLoaded, accounts, from, category))
       /\ IF charged
          THEN /\ accounts' = [accounts EXCEPT
                                 ![id] = tryCharge(@, credits)]
               /\ pendingCharges' = Record(pendingCharges, id, category, credits)
               /\ history' = [history EXCEPT
                    !.charges = @ + 1,
                    !.unsent[id][category] = Add2(@, <<1, credits>>),
                    !.during[id][category] =
                        IF syncInProgress THEN Add2(@, <<1, credits>>) ELSE @,
                    !.spent[id] = @ + credits]
          ELSE UNCHANGED <<accounts, pendingCharges, history>>
       /\ UNCHANGED <<channelVars, accountsLoaded, syncVars>>

(***************************************************************************)
(* BillingService: inbound messages                                        *)
(***************************************************************************)
\* onAccountsUpdate, for one account record of the message
onAccountsUpdate(accs, props) ==
    LET account == IF props.id \in DOMAIN accs THEN accs[props.id]
                   ELSE NewAccount
    IN Put(accs, props.id, update(account, props))

\* onBalancesUpdated, for one (id, balance) pair of the message
onBalancesUpdated(accs, id, balance) ==
    IF id \in DOMAIN accs
    THEN [accs EXCEPT ![id].balance = balance]
    ELSE accs

\* the frames the server sends
Messages ==
    [type : {"accounts-update"}, id : AccountIds, balance : Balances]
        \cup [type : {"balance-update"}, id : AccountIds, balance : Balances]
        \cup [type : {"ping"}]
        \cup [type : {"binary"}]

Props(m) == [id |-> m.id, balance |-> m.balance,
             origins |-> ServerOrigins(m.id), apiKeys |-> ServerApiKeys(m.id)]

\* whether the frame delivers a balance of an account the service holds
Delivers(m) ==
    \/ m.type = "accounts-update"
    \/ m.type = "balance-update" /\ accountsLoaded /\ m.id \in DOMAIN accounts

\* 'message' on transport t: WebSocketChannel.onMessage, which calls
\* BillingService.onMessage and catches what it throws
onMessage(t, m) ==
    /\ UNCHANGED originMatcher
    /\ readyState[t] \in {"open", "closing"}
    /\ status' = "connected"
    /\ CASE m.type = "accounts-update" ->
              /\ accountsLoaded' = TRUE
              /\ accounts' = onAccountsUpdate(accounts, Props(m))
         [] m.type = "balance-update" /\ accountsLoaded ->
              /\ accounts' = onBalancesUpdated(accounts, m.id, m.balance)
              /\ UNCHANGED accountsLoaded
         [] OTHER -> UNCHANGED <<accountsLoaded, accounts>>
    /\ history' = IF Delivers(m)
                  THEN [history EXCEPT !.spent[m.id] = 0]
                  ELSE history
    /\ last' = Last("message", <<>>, "ok")
    /\ UNCHANGED <<autoReconnect, ws, readyState, reconnectTimers,
                   pendingCharges, syncVars>>


(***************************************************************************)
(* BillingService: lifecycle and the synchronization loop                  *)
(***************************************************************************)
\* setTimeout returns a handle no live timer and no kept handle has
FreshTimer(pending) ==
    CHOOSE h \in TimerIds \ (pending \cup {syncTimerHandler}) :
        \A g \in TimerIds \ (pending \cup {syncTimerHandler}) : h <= g

\* a scheduleSync that keeps a handle and arms no timer
scheduleNothing(pending) ==
    /\ syncTimerHandler' = FreshTimer(pending)
    /\ syncTimers' = pending

\* scheduleSync(), the timers pending before it being `pending`
scheduleSync(pending) ==
    /\ syncTimerHandler' = FreshTimer(pending)
    /\ syncTimers' = pending \cup {FreshTimer(pending)}

\* connect(): whether it returns at once
AlreadyConnected == status = "connected"

\* connect()
connect ==
    /\ UNCHANGED originMatcher
    /\ IF AlreadyConnected
       THEN UNCHANGED <<channelVars, syncTimerHandler, syncTimers, history>>
       ELSE /\ Cardinality(Created) < MaxTransports
            /\ ChannelConnect(readyState)
            /\ scheduleSync(syncTimers)
            /\ history' = [history EXCEPT !.terminated = FALSE,
                                          !.rejected = FALSE]
            /\ UNCHANGED <<status, reconnectTimers>>
    /\ last' = Last("connect", <<>>, "ok")
    /\ UNCHANGED <<ledgerVars, syncInProgress, inFlight>>

\* a terminate() that cancels the timer and keeps its handle
KeptHandler == syncTimerHandler

\* terminate(): the handle afterwards
ClearedHandler == NoTimer

\* terminate()
terminate ==
    /\ UNCHANGED originMatcher
    /\ syncTimers' = syncTimers \ {syncTimerHandler}
    /\ syncTimerHandler' = ClearedHandler
    /\ autoReconnect' = FALSE
    /\ readyState' = close(readyState)
    /\ history' = [history EXCEPT !.terminated = TRUE]
    /\ last' = Last("terminate", <<>>, "ok")
    /\ UNCHANGED <<status, ws, reconnectTimers, ledgerVars, syncInProgress,
                   inFlight>>

\* syncCharges: if (!this.syncTimerHandler) return
Cancelled == syncTimerHandler = NoTimer

\* a syncCharges that does not look at the status of the channel
NothingPending ==
    \/ DOMAIN pendingCharges = {}
    \/ ~accountsLoaded

\* syncCharges: the conditions under which the tick sends nothing
NothingToSync ==
    \/ status # "connected"
    \/ DOMAIN pendingCharges = {}
    \/ ~accountsLoaded

\* a syncCharges that does not look at syncInProgress
StartAnyway == TRUE

\* syncCharges: if (!this.syncInProgress)
NoSyncInProgress == ~syncInProgress

\* a syncCharges that sends the ledger and does not replace it
KeptLedger(ledger) == ledger

\* syncCharges: the ledger right after the snapshot was taken
ResetLedger(ledger) == EmptyObject

\* a syncCharges that leaves every chargedBalance as it is
KeptCharged(accs) == accs

\* syncCharges: account.chargedBalance = 0 for every account
ResetCharged(accs) == [id \in DOMAIN accs |-> [accs[id] EXCEPT !.chargedBalance = 0]]

\* syncCharges: chargedBalances[id] = account.chargedBalance
SnapshotCharged(accs) == [id \in DOMAIN accs |-> accs[id].chargedBalance]

\* a merge that puts the snapshot entry in place of the newer one
MergeOverwrite(unsent, nc) == unsent

\* syncCharges, catch: unsentCharges[category].map((prev, i) => prev + nc[i])
MergeEntry(unsent, nc) == Add2(unsent, nc)

\* syncCharges, catch: newCharges = this.pendingCharges[unsentAccountId] || {}
\* is filled with the merged entries; it is part of the ledger only when
\* the ledger held it already
MergeUnsent(ledger, unsent) ==
    [id \in DOMAIN ledger |->
        IF id \in DOMAIN unsent
        THEN [category \in DOMAIN ledger[id] \cup DOMAIN unsent[id] |->
                IF category \in DOMAIN unsent[id]
                THEN MergeEntry(unsent[id][category], Entry(ledger, id, category))
                ELSE ledger[id][category]]
        ELSE ledger[id]]

\* syncCharges, catch: acc.chargedBalance += charged
RestoreCharged(accs, chargedBalances) ==
    [id \in DOMAIN accs |->
        IF id \in DOMAIN chargedBalances
        THEN [accs[id] EXCEPT !.chargedBalance = @ + chargedBalances[id]]
        ELSE accs[id]]

\* no charge of any account in any category (observation only)
ZeroLedger == [id \in AccountIds |-> [category \in Categories |-> <<0, 0>>]]

NotInFlight == [state |-> "none", data |-> EmptyObject,
                chargedBalances |-> EmptyObject]

Sub2(a, b) == <<a[1] - b[1], a[2] - b[2]>>

\* a total less the entries of a ledger (observation only)
SubLedger(total, ledger) ==
    [id \in AccountIds |-> [category \in Categories |->
        Sub2(total[id][category], Entry(ledger, id, category))]]

\* the sync timeout t fires: syncCharges() up to its await
SyncTick(t) ==
    /\ UNCHANGED originMatcher
    /\ t \in syncTimers
    /\ IF Cancelled
       THEN /\ syncTimers' = syncTimers \ {t}
            /\ last' = Last("tick", <<>>, "cancelled")
            /\ UNCHANGED <<syncTimerHandler, syncInProgress, inFlight,
                           accounts, pendingCharges, history>>
       ELSE IF NothingToSync
       THEN /\ scheduleSync(syncTimers \ {t})
            /\ last' = Last("tick", <<>>, "skipped")
            /\ UNCHANGED <<syncInProgress, inFlight, accounts,
                           pendingCharges, history>>
       ELSE IF NoSyncInProgress
       THEN /\ syncInProgress' = TRUE
            /\ pendingCharges' = ResetLedger(pendingCharges)
            /\ accounts' = ResetCharged(accounts)
            /\ \E outcome \in notifyOutcomes(ws, readyState) :
                 /\ inFlight' = [state |-> outcome, data |-> pendingCharges,
                                 chargedBalances |-> SnapshotCharged(accounts)]
                 /\ history' = [history EXCEPT
                      !.unsent = IF outcome = "ok"
                                 THEN SubLedger(@, pendingCharges) ELSE @]
            /\ syncTimers' = syncTimers \ {t}
            /\ last' = Last("tick", <<>>, "started")
            /\ UNCHANGED syncTimerHandler
       ELSE /\ scheduleSync(syncTimers \ {t})
            /\ last' = Last("tick", <<>>, "dropped")
            /\ UNCHANGED <<syncInProgress, inFlight, accounts,
                           pendingCharges, history>>
    /\ UNCHANGED <<channelVars, accountsLoaded>>

\* the awaited notify settles: syncCharges() after its await
SyncResume ==
    /\ UNCHANGED originMatcher
    /\ inFlight.state # "none"
    /\ IF inFlight.state = "throw"
       THEN /\ pendingCharges' = MergeUnsent(pendingCharges, inFlight.data)
            /\ accounts' = RestoreCharged(accounts, inFlight.chargedBalances)
       ELSE UNCHANGED <<pendingCharges, accounts>>
    /\ syncInProgress' = FALSE
    /\ inFlight' = NotInFlight
    /\ history' = [history EXCEPT !.during = ZeroLedger]
    /\ IF ~Cancelled
       THEN scheduleSync(syncTimers)
       ELSE UNCHANGED <<syncTimerHandler, syncTimers>>
    /\ last' = Last("resume", <<>>, inFlight.state)
    /\ UNCHANGED <<channelVars, accountsLoaded>>

(***************************************************************************)
(* The service: constructed, then driven by the host, the transports and   *)
(* the timers.                                                             *)
(***************************************************************************)
\* nothing has happened yet
NoHistory ==
    [charges |-> 0, unsent |-> ZeroLedger, during |-> ZeroLedger,
     spent |-> [id \in AccountIds |-> 0],
     terminated |-> FALSE, rejected |-> FALSE]

Init ==
    /\ status = "disconnected"
    /\ autoReconnect = FALSE
    /\ ws = NoWs
    /\ readyState = EmptyObject
    /\ reconnectTimers = 0
    /\ accountsLoaded = FALSE
    /\ accounts = EmptyObject
    /\ pendingCharges = EmptyObject
    /\ syncTimerHandler = NoTimer
    /\ syncTimers = {}
    /\ syncInProgress = FALSE
    /\ inFlight = NotInFlight
    /\ originMatcher = OriginMatcher({})
    /\ last = Last("new", <<>>, "ok")
    /\ history = NoHistory

\* the account ids the host charges in Spec, and the frames of the server
\* there: one account that is loaded and one id that is never known
FromIds == [kind : {"id"}, id : {"a1", "zz"}]

FramesOfOne ==
    {m \in Messages :
        m.type \in {"accounts-update", "balance-update"} => m.id = "a1"}

\* The whole service: the host, the transports, the two kinds of timers.
Next ==
    \/ connect
    \/ terminate
    \/ \E from \in FromIds, category \in Categories : charge(from, category)
    \/ \E t \in Created : onOpen(t)
    \/ \E t \in Created, m \in FramesOfOne : onMessage(t, m)
    \/ \E t \in Created, errorCode \in CloseCodes : onClose(t, errorCode)
    \/ \E t \in Created : onError(t)
    \/ Reconnect
    \/ \E t \in syncTimers : SyncTick(t)
    \/ SyncResume

Spec == Init /\ [][Next]_vars

\* The same service with its timers and promises doing their work: a sync
\* timeout that is pending fires, a notify that is awaited settles.
SpecLive ==
    /\ Init /\ [][Next]_vars
    /\ WF_vars(\E t \in TimerIds : SyncTick(t))
    /\ WF_vars(SyncResume)

\* The channel and its owner's connect / terminate, with every frame of the
\* server. charge, SyncTick and SyncResume leave the channel's fields
\* unchanged and are left out.
NextChannel ==
    \/ connect
    \/ terminate
    \/ \E t \in Created : onOpen(t)
    \/ \E t \in Created, m \in Messages : onMessage(t, m)
    \/ \E t \in Created, errorCode \in CloseCodes : onClose(t, errorCode)
    \/ \E t \in Created : onError(t)
    \/ Reconnect

SpecChannel == Init /\ [][NextChannel]_vars

\* Authorization: both accounts of the server, and charge called with every
\* id and every request attribution.
NextCharge ==
    \/ connect
    \/ \E t \in Created : onOpen(t)
    \/ \E t \in Created, m \in Messages : onMessage(t, m)
    \/ \E from \in Froms, category \in Categories : charge(from, category)

SpecCharge == Init /\ [][NextCharge]_vars

(***************************************************************************)
(* One BillingAccount on its own: tryCharge called with any amounts.       *)
(***************************************************************************)
InitAccount ==
    /\ status = "disconnected"
    /\ autoReconnect = FALSE
    /\ ws = NoWs
    /\ readyState = EmptyObject
    /\ reconnectTimers = 0
    /\ accountsLoaded = TRUE
    /\ \E balance \in 0..MaxAccountBalance :
         accounts = [id \in {"a1"} |-> [NewAccount EXCEPT !.balance = balance]]
    /\ pendingCharges = EmptyObject
    /\ syncTimerHandler = NoTimer
    /\ syncTimers = {}
    /\ syncInProgress = FALSE
    /\ inFlight = NotInFlight
    /\ originMatcher = OriginMatcher({})
    /\ last = Last("new", <<>>, "ok")
    /\ history = NoHistory

\* account.tryCharge(amount)
TryCharge(amount) ==
    /\ UNCHANGED originMatcher
    /\ accounts' = [accounts EXCEPT !["a1"] = tryCharge(@, amount)]
    /\ last' = Last("tryCharge", <<amount>>,
                    IF CanCharge(accounts["a1"], amount) THEN "true" ELSE "false")
    /\ UNCHANGED <<channelVars, accountsLoaded, pendingCharges, syncVars,
                   history>>

NextAccount == \E amount \in 0..MaxAmount : TryCharge(amount)

SpecAccount == InitAccount /\ [][NextAccount]_vars

(***************************************************************************)
(* One OriginMatcher on its own: built from an allowlist, then asked.      *)
(***************************************************************************)
InitOrigin ==
    /\ status = "disconnected"
    /\ autoReconnect = FALSE
    /\ ws = NoWs
    /\ readyState = EmptyObject
    /\ reconnectTimers = 0
    /\ accountsLoaded = FALSE
    /\ accounts = EmptyObject
    /\ pendingCharges = EmptyObject
    /\ syncTimerHandler = NoTimer
    /\ syncTimers = {}
    /\ syncInProgress = FALSE
    /\ inFlight = NotInFlight
    /\ \E origins \in SUBSET AllowlistEntries :
         originMatcher = OriginMatcher(origins)
    /\ last = Last("new", <<>>, "ok")
    /\ history = NoHistory

\* matcher.match(origin), origin-matcher.js
Match(origin) ==
    /\ last' = Last("match", <<origin>>, match(originMatcher, origin))
    /\ UNCHANGED <<channelVars, ledgerVars, syncVars, originMatcher, history>>

\* matcher.match(origin), billing-account.js
MatchGuarded(origin) ==
    /\ last' = Last("matchGuarded", <<origin>>,
                    matchGuarded(originMatcher, origin))
    /\ UNCHANGED <<channelVars, ledgerVars, syncVars, originMatcher, history>>

NextOrigin ==
    \/ \E origin \in Origins : Match(origin)
    \/ \E origin \in Origins : MatchGuarded(origin)

SpecOrigin == InitOrigin /\ [][NextOrigin]_vars


(***************************************************************************)
(* Properties.                                                             *)
(*                                                                         *)
(* history.unsent is, for every account and category, the number and the   *)
(* credits of the successful charges that no charge message sent to the    *)
(* server contains: a successful charge adds to it, a charge message that  *)
(* was sent takes its snapshot away. history.spent is the credits charged  *)
(* to an account since the server last delivered a balance for it.         *)
(* history.during is the successful charges made while the sync attempt in *)
(* flight has been in flight.                                              *)
(***************************************************************************)
FailedAttemptCompleted == last.op = "resume" /\ last.result = "throw"

\* C1: when a failed sync attempt has completed, the pending-charges ledger
\* holds, for every account and category, exactly the number and the credits
\* of the successful charges made since the last successful sync.
C1_NoChargeLost ==
    FailedAttemptCompleted =>
        \A id \in AccountIds, category \in Categories :
            Entry(pendingCharges, id, category) = history.unsent[id][category]

\* C2: no charge is counted twice: for every account and category, the
\* credits in the charge messages sent plus the credits in the ledger never
\* exceed the credits of the successful charges, that is the ledger never
\* holds more than the successful charges no sent message contains.
C2_NoDoubleCount ==
    \A id \in AccountIds, category \in Categories :
        Entry(pendingCharges, id, category)[2] <= history.unsent[id][category][2]

\* a failed attempt has completed and merged its snapshot with a charge made
\* while it was in flight
C2_Witness ==
    /\ FailedAttemptCompleted
    /\ \E id \in AccountIds, category \in Categories :
         /\ Entry(pendingCharges, id, category)[1] = 2
         /\ history.unsent[id][category][1] = 2

\* C3: the credits charged to an account while the server delivers no new
\* balance for it never exceed the account's balance.
C3_NoOverspend ==
    \A id \in DOMAIN accounts : history.spent[id] <= accounts[id].balance

\* C4: over any sequence of tryCharge calls on an account of unchanged
\* balance, chargedBalance never exceeds balance and the available balance
\* is never negative.
C4_ChargedWithinBalance ==
    \A id \in DOMAIN accounts :
        /\ accounts[id].chargedBalance <= accounts[id].balance
        /\ currentBalance(accounts[id]) >= 0

\* the balance is used up and a further charge was refused
C4_Witness ==
    /\ last.op = "tryCharge" /\ last.result = "false"
    /\ accounts["a1"].balance > 0
    /\ accounts["a1"].chargedBalance = accounts["a1"].balance

\* C5: tryCharge of exactly the available balance returns true and adds the
\* amount to chargedBalance; tryCharge of more than the available balance
\* returns false and leaves the account unchanged.
C5_ExactBoundary ==
    [][last'.op = "tryCharge" =>
         LET amount == last'.arg[1]
             before == accounts["a1"]
             after == accounts'["a1"]
         IN /\ amount = currentBalance(before) =>
                  /\ last'.result = "true"
                  /\ after = [before EXCEPT !.chargedBalance = @ + amount]
            /\ amount > currentBalance(before) =>
                  /\ last'.result = "false"
                  /\ after = before]_vars

\* the last call charged exactly what was available
C5_Witness ==
    /\ last.op = "tryCharge" /\ last.result = "true"
    /\ last.arg[1] > 0
    /\ accounts["a1"].chargedBalance = accounts["a1"].balance

\* C6: after terminate() (which calls close()) and until the host connects
\* again, no new transport is opened.
C6_CloseWins ==
    [][history.terminated /\ history'.terminated => Created' = Created]_vars

\* C7: a close with the policy-violation code leaves autoReconnect false,
\* and after it no new transport is opened until the host connects again.
C7_RejectionFinal ==
    [][/\ (last'.op = "close" /\ last'.arg = <<PolicyViolation>>)
            => ~autoReconnect'
       /\ (history.rejected /\ history'.rejected) => Created' = Created]_vars

\* C8: the status becomes connected only by an inbound frame; connect() and
\* the open event leave it as it is; every close and error event leaves it
\* disconnected.
C8_ConnectedOnlyByFrame ==
    [][/\ (status # "connected" /\ status' = "connected")
            => last'.op = "message"
       /\ last'.op \in {"connect", "reconnect", "open"} => status' = status
       /\ last'.op \in {"close", "error"} => status' = "disconnected"]_vars

\* a transport has opened, no frame has arrived on any, and the channel is
\* disconnected
C8_Witness ==
    /\ last.op = "open" /\ last.result = "ok"
    /\ status = "disconnected"

\* C9: after terminate() and until the host connects again, a tick sends
\* nothing, changes neither the ledger nor any account and arms no timer, and
\* the sync attempt in flight completes without arming a timer.
C9_DeadAfterTerminate ==
    [][(history.terminated /\ last'.op \in {"tick", "resume"}) =>
         /\ syncTimers' \subseteq syncTimers
         /\ last'.op = "tick" =>
              UNCHANGED <<pendingCharges, accounts, inFlight, history>>]_vars

\* a timer armed before terminate() has fired after it
C9_Witness ==
    /\ history.terminated
    /\ last.op = "tick"

\* C10: the charge is one the service denies: the account cannot be resolved
\* or its balance does not cover the price
Denied(from, category) ==
    LET r == Resolve(accountsLoaded, accounts, from)
    IN /\ r # "true"
       /\ \/ r = "false"
          \/ ~accountsLoaded
          \/ r \notin DOMAIN accounts
          \/ currentBalance(accounts[r]) < pricing[category]

\* C10: a denied charge returns false, raises nothing and leaves the ledger
\* and every account unchanged.
C10_DenialsReturned ==
    [][\A from \in Froms, category \in Categories :
         (Denied(from, category) /\ charge(from, category)) =>
            /\ last'.result = "false"
            /\ UNCHANGED <<pendingCharges, accounts>>]_vars

\* C11: the request names an origin of the service's own allowlist
SelfOriginated(from) ==
    /\ from.kind = "headers"
    /\ from.headers.origin # Undefined
    /\ from.headers.origin \in allowlist

\* C11: a charge whose request origin is an entry of the allowlist returns
\* true and leaves the ledger and every account unchanged, with any
\* authorization header and whether or not accounts are loaded.
C11_SelfOriginShortCircuit ==
    [][\A from \in Froms, category \in Categories :
         (SelfOriginated(from) /\ charge(from, category)) =>
            /\ last'.result = "true"
            /\ UNCHANGED <<pendingCharges, accounts>>]_vars

\* a charge has returned true before any account was loaded
C11_Witness ==
    /\ last.op = "charge" /\ last.result = "true"
    /\ ~accountsLoaded

\* C12: a matcher built from ["*.example.com"] answers true for example.com
\* and api.example.com and false for evil-example.com.
C12_WildcardBoundary ==
    (/\ originMatcher = OriginMatcher({ExampleWildcard})
     /\ last.op \in {"match", "matchGuarded"}) =>
        /\ last.arg = <<ExampleRoot>> => last.result = "true"
        /\ last.arg = <<ExampleSubdomain>> => last.result = "true"
        /\ last.arg = <<ExampleLookalike>> => last.result = "false"

\* C13: match of an absent or empty origin, or of an origin with no
\* label.label suffix that is not in the list, returns false and does not
\* throw, for every allowlist.
C13_MatchNeverThrows ==
    last.op \in {"match", "matchGuarded"} =>
        LET origin == last.arg[1]
        IN (\/ origin \in {Undefined, <<>>}
            \/ Exec(origin) = Null /\ origin \notin originMatcher.list)
              => last.result = "false"

\* the credits of a row of a ledger, over the categories cats
RECURSIVE SumCredits(_, _)
SumCredits(row, cats) ==
    IF cats = {} THEN 0
    ELSE LET c == CHOOSE x \in cats : TRUE
         IN row[c][2] + SumCredits(row, cats \ {c})

\* C14: when a sync attempt succeeds, the ledger afterwards holds exactly the
\* charges made after the snapshot was taken, and every account's
\* chargedBalance is the credits charged to it after the snapshot.
C14_SuccessKeepsLater ==
    [][(inFlight.state = "ok" /\ last'.op = "resume") =>
         /\ \A id \in AccountIds, category \in Categories :
              Entry(pendingCharges', id, category) = history.during[id][category]
         /\ \A id \in DOMAIN accounts' :
              accounts'[id].chargedBalance
                  = SumCredits(history.during[id], Categories)]_vars

\* an attempt has succeeded and a charge made while it was in flight is in
\* the ledger
C14_Witness ==
    /\ last.op = "resume" /\ last.result = "ok"
    /\ DOMAIN pendingCharges # {}

\* C15: when a sync attempt fails, every pair of the snapshot that was charged
\* again while the attempt was in flight holds the element-wise sum of the
\* snapshot entry and the entry of the charges made meanwhile, and the
\* account's chargedBalance is the snapshotted amount plus the credits
\* charged meanwhile; [10, 50] and [5, 25] merge into [15, 75].
C15_FailureMerges ==
    [][(inFlight.state = "throw" /\ last'.op = "resume") =>
         /\ \A id \in DOMAIN inFlight.data :
              \A category \in DOMAIN inFlight.data[id] :
                 history.during[id][category] # <<0, 0>> =>
                    /\ Entry(pendingCharges', id, category)
                         = Add2(inFlight.data[id][category],
                                history.during[id][category])
                    /\ accounts'[id].chargedBalance
                         = inFlight.chargedBalances[id]
                             + SumCredits(history.during[id], Categories)
         /\ MergeEntry(<<10, 50>>, <<5, 25>>) = <<15, 75>>]_vars

\* an attempt has failed and left a pair charged once before the snapshot and
\* once during the attempt
C15_Witness ==
    /\ FailedAttemptCompleted
    /\ \E id \in DOMAIN accounts, category \in Categories :
         /\ Entry(pendingCharges, id, category) = <<2, 2 * pricing[category]>>
         /\ accounts[id].chargedBalance = 2 * pricing[category]

\* C16: at most one sync attempt is in flight: a tick that fires while one is
\* in flight sends nothing and changes neither the ledger nor any account,
\* however many timers are pending.
C16_OneInFlight ==
    [][/\ (syncInProgress /\ last'.op = "tick") =>
            /\ UNCHANGED <<pendingCharges, accounts, inFlight>>
            /\ history'.unsent = history.unsent
       /\ (syncInProgress' <=> inFlight'.state # "none")]_vars

\* a second timer has fired while an attempt was in flight
C16_Witness ==
    /\ last.op = "tick" /\ last.result = "dropped"
    /\ syncInProgress

\* C18: the conditions under which a tick may begin a sync attempt
MayBegin ==
    /\ status = "connected"
    /\ DOMAIN pendingCharges # {}
    /\ accountsLoaded
    /\ ~syncInProgress

\* C18: a tick begins a sync attempt only if the channel is connected, the
\* ledger is not empty, accounts are loaded and no attempt is in flight;
\* otherwise it sends nothing and leaves the ledger and every account alone.
C18_BeginsOnlyWhenReady ==
    [][last'.op = "tick" =>
         /\ (inFlight.state = "none" /\ inFlight'.state # "none") => MayBegin
         /\ ~MayBegin =>
              /\ UNCHANGED <<pendingCharges, accounts, inFlight>>
              /\ history'.unsent = history.unsent]_vars

\* a tick has found charges pending and the channel disconnected
C18_Witness ==
    /\ last.op = "tick" /\ last.result = "skipped"
    /\ DOMAIN pendingCharges # {}
    /\ accountsLoaded
    /\ status = "disconnected"

\* C19: a close event with a code other than policy-violation that arrives
\* while autoReconnect is true leaves the status disconnected and the
\* transport handle discarded and schedules exactly one reconnect, which
\* calls connect() once; a close that arrives while autoReconnect is false
\* schedules none.
C19_CloseSchedulesOne ==
    [][/\ last'.op = "close" =>
            /\ (autoReconnect /\ last'.arg # <<PolicyViolation>>) =>
                  /\ status' = "disconnected"
                  /\ ws' = NoWs
                  /\ reconnectTimers' = reconnectTimers + 1
            /\ ~autoReconnect => reconnectTimers' = reconnectTimers
       /\ last'.op = "reconnect" =>
            /\ reconnectTimers' = reconnectTimers - 1
            /\ Cardinality(Created') = Cardinality(Created) + 1]_vars

\* a close that is no rejection has arrived while autoReconnect was true
C19_Witness ==
    /\ last.op = "close" /\ last.arg # <<PolicyViolation>>
    /\ autoReconnect
    /\ reconnectTimers = 1

\* C20: the transports that have not failed, been destroyed or closed
Live(rs) == {t \in DOMAIN rs : rs[t] \in {"connecting", "open", "closing"}}

\* C20: at most one transport is live and at most one reconnect is pending
\* at any time, and the close event of a transport that is not the current
\* one leaves the current transport in place.
C20_SingleConnection ==
    [][/\ Cardinality(Live(readyState')) <= 1
       /\ reconnectTimers' <= 1
       /\ \A t \in Created :
            (/\ last'.op = "close"
             /\ readyState[t] # "closed" /\ readyState'[t] = "closed"
             /\ ws # NoWs /\ ws # t) =>
                /\ ws' = ws
                /\ readyState'[ws] = readyState[ws]]_vars

\* C17: the service is alive: started by connect() and not terminated, which
\* the service keeps as a timer handle that is set
Alive == syncTimerHandler # NoTimer

\* C17: while the service is alive every tick that fires re-arms the timer,
\* at once or when the attempt it began completes, and ticks go on firing
\* for as long as the service is not terminated.
C17_LoopNeverStops ==
    /\ [][(Alive /\ last'.op \in {"tick", "resume"}) =>
            (syncTimerHandler' \in syncTimers' \/ syncInProgress')]_vars
    /\ \/ []<>(~Alive)
       \/ []<><<\E t \in TimerIds : SyncTick(t)>>_vars

\* a sync attempt has completed and armed the timer for the next tick
C17_Witness ==
    /\ last.op = "resume"
    /\ Alive
    /\ syncTimerHandler \in syncTimers

====
